---- MODULE Spec2Model ----
(***************************************************************************)
(* A model of sphinx-js' renderers.py, directives.py and generator.py:     *)
(* member selection and ordering, exclusion parsing, error conversion in   *)
(* rst_nodes, and the generation of automodules stub files.                *)
(***************************************************************************)
EXTENDS Integers, Sequences, FiniteSets, TLC

VARIABLES
    op,         \* the operation that ran last ("init" before any)
    obj,        \* the IR object whose members are rendered: [members |-> Seq(member)]
    include,    \* the include argument of the last call: [none, list]
    exclude,    \* the exclude argument of the last _members_of call
    priv,       \* should_include_private of the last _members_of call
    included,   \* the list returned by the last _members_to_include call
    rendered,   \* the members joined by the last _members_of call, in order
    arg,        \* the argument of _members_to_exclude: [none, str]
    excluded,   \* the set returned by the last _members_to_exclude call
    lines,      \* the lines given to find_automodules_in_lines
    filename,   \* its filename argument: None or a string
    documented, \* the entries it returned
    doc,            \* the source document: [lines, isfile]
    source_suffix,  \* app.config.source_suffix
    fs,             \* the stub files on disk: file name -> content
    dirs,           \* the directories made by ensuredir
    generated,      \* app.generated_automodules_docs
    trace,          \* the stubs the last generation went through, in order
    warnings,       \* the number of warnings logged
    builds,         \* the number of builds so far
    partial_path,   \* the path segments named by the directive
    short_name,     \* whether the directive has the short-name option
    lookup,         \* what the analyzer's get_object does for the path
    result,         \* the outcome of rst_nodes
    explicit_formal_params, \* the parameter list written in the directive
    params,                 \* obj.params
    formal_params,          \* what _formal_params returned
    options,                \* the options the directive sets
    config_default_options, \* app.config['js_autodoc_default_options']
    options_active          \* self._options after _default_options

memberVars == <<obj, include, exclude, priv, included, rendered>>
excludeVars == <<arg, excluded>>
lineVars == <<lines, filename, documented>>
genVars == <<doc, source_suffix, fs, dirs, generated, trace, warnings, builds>>

nodeVars == <<partial_path, short_name, lookup, result>>

paramVars == <<explicit_formal_params, params, formal_params>>
optionVars == <<options, config_default_options, options_active>>
rendererVars == <<paramVars, optionVars>>

vars == <<op, memberVars, excludeVars, lineVars, genVars, nodeVars, rendererVars>>

(***************************************************************************)
(* Bounds                                                                  *)
(***************************************************************************)
MaxMembers == 3
MaxInclude == 2
MaxArgLen == 4
MaxLines == 3
MaxDocLines == 3
MaxSuffixes == 2
MaxBuilds == 2
MaxPathLen == 2
MaxBlockLines == 4
MaxParams == 3
MaxOptionNames == 1

(***************************************************************************)
(* Generic helpers on sequences                                            *)
(***************************************************************************)
Range(s) == {s[i] : i \in 1..Len(s)}

RECURSIVE SelectSeqBy(_, _)
\* [x for x in s if x.name in names]
SelectSeqBy(s, names) ==
    IF s = <<>> THEN <<>>
    ELSE IF Head(s).name \in names
         THEN <<Head(s)>> \o SelectSeqBy(Tail(s), names)
         ELSE SelectSeqBy(Tail(s), names)

RECURSIVE RejectSeqBy(_, _)
\* (x for x in s if x.name not in names)
RejectSeqBy(s, names) ==
    IF s = <<>> THEN <<>>
    ELSE IF Head(s).name \notin names
         THEN <<Head(s)>> \o RejectSeqBy(Tail(s), names)
         ELSE RejectSeqBy(Tail(s), names)

\* list.index(x): the first position of x (1-based here), x is in the list
Index(s, x) == CHOOSE i \in 1..Len(s) : s[i] = x /\ \A j \in 1..(i-1) : s[j] # x

(***************************************************************************)
(* Strings are sequences of one-character strings, so that splitting,      *)
(* stripping and searching are computed character by character.            *)
(***************************************************************************)
\* the strings over the characters cs of length at most n
StringsUpTo(cs, n) == UNION {[1..k -> cs] : k \in 0..n}

IsSpace(c) == c \in {" ", "\t"}

RECURSIVE LStrip(_)
LStrip(s) == IF s # <<>> /\ IsSpace(Head(s)) THEN LStrip(Tail(s)) ELSE s

RECURSIVE RStrip(_)
RStrip(s) ==
    IF s # <<>> /\ IsSpace(s[Len(s)]) THEN RStrip(SubSeq(s, 1, Len(s) - 1)) ELSE s

\* str.strip()
Strip(s) == RStrip(LStrip(s))

RECURSIVE SplitFrom(_, _, _)
SplitFrom(s, sep, cur) ==
    IF s = <<>> THEN <<cur>>
    ELSE IF Head(s) = sep
         THEN <<cur>> \o SplitFrom(Tail(s), sep, <<>>)
         ELSE SplitFrom(Tail(s), sep, Append(cur, Head(s)))

\* str.split(sep) for a one-character separator: ''.split(',') is ['']
Split(s, sep) == SplitFrom(s, sep, <<>>)

(***************************************************************************)
(* directives.py: _members_to_exclude                                      *)
(***************************************************************************)
ExcludeChars == {"a", "b", ",", " "}

\* the values of the :exclude-members: option text: None or a string
ArgValues ==
    {[none |-> TRUE, str |-> <<>>]} \cup
    {[none |-> FALSE, str |-> t] : t \in StringsUpTo(ExcludeChars, MaxArgLen)}

\* a version that forgets to strip the names
_members_to_exclude_unstripped(a) ==
    {piece : piece \in Range(Split(IF a.none THEN <<>> ELSE a.str, ","))}

\* set(a.strip() for a in (arg or '').split(','))
_members_to_exclude(a) ==
    {Strip(piece) : piece \in Range(Split(IF a.none THEN <<>> ELSE a.str, ","))}

(***************************************************************************)
(* posixpath: dirname and join, as generator.py uses them                  *)
(***************************************************************************)
RECURSIVE RStripSlash(_)
RStripSlash(s) ==
    IF s # <<>> /\ s[Len(s)] = "/" THEN RStripSlash(SubSeq(s, 1, Len(s) - 1)) ELSE s

\* the position after the last '/' of p, minus one: p.rfind('/') + 1
LastSlash(p) ==
    LET at == {k \in 1..Len(p) : p[k] = "/"}
    IN IF at = {} THEN 0 ELSE CHOOSE k \in at : \A l \in at : k >= l

\* os.path.dirname
Dirname(p) ==
    LET head == SubSeq(p, 1, LastSlash(p))
    IN IF head # <<>> /\ RStripSlash(head) # <<>> THEN RStripSlash(head) ELSE head

\* os.path.join(a, b)
PathJoin(a, b) ==
    IF b # <<>> /\ Head(b) = "/" THEN b
    ELSE IF a = <<>> \/ a[Len(a)] = "/" THEN a \o b
    ELSE a \o <<"/">> \o b

(***************************************************************************)
(* generator.py: find_automodules_in_lines                                 *)
(***************************************************************************)
StartsWith(s, pre) == Len(s) >= Len(pre) /\ SubSeq(s, 1, Len(pre)) = pre

Drop(s, n) == SubSeq(s, n + 1, Len(s))

RECURSIVE LeadingSpaces(_)
\* the length of the longest prefix of white space, what a greedy \s* takes
LeadingSpaces(s) ==
    IF s # <<>> /\ IsSpace(Head(s)) THEN 1 + LeadingSpaces(Tail(s)) ELSE 0

Lower == {"a", "b", "c", "d", "e", "f", "g", "h", "i", "j", "k", "l", "m",
          "n", "o", "p", "q", "r", "s", "t", "u", "v", "w", "x", "y", "z"}
Upper == {"A", "B", "C", "D", "E", "F", "G", "H", "I", "J", "K", "L", "M",
          "N", "O", "P", "Q", "R", "S", "T", "U", "V", "W", "X", "Y", "Z"}
Digits == {"0", "1", "2", "3", "4", "5", "6", "7", "8", "9"}

\* [_a-zA-Z]
IsItemStart(c) == c \in Lower \cup Upper \cup {"_"}
\* [a-zA-Z0-9_./]
IsItemChar(c) == c \in Lower \cup Upper \cup Digits \cup {"_", ".", "/"}

RECURSIVE LeadingItemChars(_)
LeadingItemChars(s) ==
    IF s # <<>> /\ IsItemChar(Head(s)) THEN 1 + LeadingItemChars(Tail(s)) ELSE 0

NoMatch == [matched |-> FALSE, group |-> <<>>]
Matched(g) == [matched |-> TRUE, group |-> g]

\* automodules_re = ^(\s*)\.\.\s+js:automodules::\s*   group: the indent
automodules_re(line) ==
    LET n == LeadingSpaces(line)
        rest == Drop(line, n)
        k == LeadingSpaces(Drop(rest, 2))
    IN IF /\ StartsWith(rest, <<".", ".">>)
          /\ k >= 1
          /\ StartsWith(Drop(rest, 2 + k), <<"j", "s", ":", "a", "u", "t", "o", "m", "o", "d", "u", "l", "e", "s", ":", ":">>)
       THEN Matched(SubSeq(line, 1, n))
       ELSE NoMatch

\* ^\s+:<key>:\s*(.*?)\s*$   group: the rest of the line without the white
\* space around it
option_re(key, line) ==
    LET n == LeadingSpaces(line)
        rest == Drop(line, n)
    IN IF n >= 1 /\ StartsWith(rest, key)
       THEN Matched(RStrip(LStrip(Drop(rest, Len(key)))))
       ELSE NoMatch

toctree_arg_re(line) == option_re(<<":", "t", "o", "c", "t", "r", "e", "e", ":">>, line)
members_arg_re(line) == option_re(<<":", "m", "e", "m", "b", "e", "r", "s", ":">>, line)
exclude_members_arg_re(line) == option_re(<<":", "e", "x", "c", "l", "u", "d", "e", "-", "m", "e", "m", "b", "e", "r", "s", ":">>, line)
private_members_arg_re(line) == option_re(<<":", "p", "r", "i", "v", "a", "t", "e", "-", "m", "e", "m", "b", "e", "r", "s", ":">>, line)

\* automodules_item_re = ^\s+(~?[_a-zA-Z][a-zA-Z0-9_./]*)\s*.*?
automodules_item_re(line) ==
    LET n == LeadingSpaces(line)
        rest == Drop(line, n)
        t == IF rest # <<>> /\ Head(rest) = "~" THEN 1 ELSE 0
        body == Drop(rest, t)
    IN IF n >= 1 /\ body # <<>> /\ IsItemStart(Head(body))
       THEN Matched(SubSeq(rest, 1, t + LeadingItemChars(body)))
       ELSE NoMatch

\* Python values that are None, False or a string
None == [kind |-> "None", str |-> <<>>]
False == [kind |-> "False", str |-> <<>>]
Str(s) == [kind |-> "str", str |-> s]

AutomodulesEntry(name, path, members, exclude_members, private_members) ==
    [name |-> name, path |-> path, members |-> members,
     exclude_members |-> exclude_members, private_members |-> private_members]

\* the locals of find_automodules_in_lines before the loop
ParserStart ==
    [documented |-> <<>>, toctree |-> None, members |-> None,
     exclude_members |-> Str(<<>>), private_members |-> False,
     in_automodules |-> FALSE, base_indent |-> <<>>]

\* the test for a directive line without the reset of the options
DirectiveStepKeepingOptions(st, line) ==
    LET m == automodules_re(line)
    IN IF m.matched
       THEN [st EXCEPT !.in_automodules = TRUE, !.base_indent = m.group]
       ELSE st

\* the tail of the loop body: the test for a directive line
DirectiveStep(st, line) ==
    LET m == automodules_re(line)
    IN IF m.matched
       THEN [st EXCEPT !.in_automodules = TRUE,
                       !.base_indent = m.group,
                       !.toctree = Str(<<"_", "a", "u", "t", "o", "m", "o", "d", "u", "l", "e", "s">>),
                       !.members = None,
                       !.exclude_members = Str(<<>>),
                       !.private_members = None]
       ELSE st

\* one iteration of the loop over the lines
LineStep(st, line, fname) ==
    IF ~st.in_automodules THEN DirectiveStep(st, line)
    ELSE IF toctree_arg_re(line).matched
    THEN [st EXCEPT !.toctree =
            IF fname.kind = "None" \/ fname.str = <<>>
            THEN Str(toctree_arg_re(line).group)
            ELSE Str(PathJoin(Dirname(fname.str), toctree_arg_re(line).group))]
    ELSE IF members_arg_re(line).matched
    THEN [st EXCEPT !.members = Str(Strip(members_arg_re(line).group))]
    ELSE IF exclude_members_arg_re(line).matched
    THEN [st EXCEPT !.exclude_members = Str(Strip(exclude_members_arg_re(line).group))]
    ELSE IF private_members_arg_re(line).matched
    THEN [st EXCEPT !.private_members = Str(Strip(private_members_arg_re(line).group))]
    ELSE IF StartsWith(Strip(line), <<":">>)
    THEN st
    ELSE IF automodules_item_re(line).matched
    THEN [st EXCEPT !.documented = Append(@,
            AutomodulesEntry(Strip(automodules_item_re(line).group), st.toctree,
                             st.members, st.exclude_members, st.private_members))]
    ELSE IF Strip(line) = <<>> \/ StartsWith(line, st.base_indent \o <<" ">>)
    THEN st
    ELSE DirectiveStep([st EXCEPT !.in_automodules = FALSE], line)

RECURSIVE ParseLines(_, _, _)
ParseLines(st, ls, fname) ==
    IF ls = <<>> THEN st
    ELSE ParseLines(LineStep(st, Head(ls), fname), Tail(ls), fname)

find_automodules_in_lines(ls, fname) ==
    ParseLines(ParserStart, ls, fname).documented

(***************************************************************************)
(* Python's order of strings (by code point) and the repr of an entry,     *)
(* which generate_automodules_docs sorts the entries by                    *)
(***************************************************************************)
\* the printable ASCII characters, from code point 32 on (the grave accent,
\* code point 96, is spelled out: no string here holds it)
Ascii == <<
    " ", "!", "\"", "#", "$", "%", "&", "'", "(", ")", "*", "+",
    ",", "-", ".", "/", "0", "1", "2", "3", "4", "5", "6", "7",
    "8", "9", ":", ";", "<", "=", ">", "?", "@", "A", "B", "C",
    "D", "E", "F", "G", "H", "I", "J", "K", "L", "M", "N", "O",
    "P", "Q", "R", "S", "T", "U", "V", "W", "X", "Y", "Z", "[",
    "\\", "]", "^", "_", "grave", "a", "b", "c", "d", "e", "f", "g",
    "h", "i", "j", "k", "l", "m", "n", "o", "p", "q", "r", "s",
    "t", "u", "v", "w", "x", "y", "z", "{", "|", "}", "~" >>

AsciiOrd == [c \in Range(Ascii) |-> 31 + CHOOSE i \in 1..Len(Ascii) : Ascii[i] = c]

\* str < str: decided at the first position where the strings differ, a
\* proper prefix is smaller
StrLess(a, b) ==
    LET n == IF Len(a) < Len(b) THEN Len(a) ELSE Len(b)
        diff == {k \in 1..n : a[k] # b[k]}
        first == CHOOSE k \in diff : \A l \in diff : k <= l
    IN IF diff = {} THEN Len(a) < Len(b)
       ELSE AsciiOrd[a[first]] < AsciiOrd[b[first]]

Quote == <<"'">>

\* repr() of None, False or a string without quotes and escapes
Repr(v) ==
    IF v.kind = "None" THEN <<"N", "o", "n", "e">>
    ELSE IF v.kind = "False" THEN <<"F", "a", "l", "s", "e">>
    ELSE Quote \o v.str \o Quote

\* str(entry) of the named tuple
EntryStr(e) ==
    <<"A", "u", "t", "o", "m", "o", "d", "u", "l", "e", "s", "E", "n", "t", "r", "y", "(", "n", "a", "m", "e", "=">> \o Repr(Str(e.name))
    \o <<",", " ", "p", "a", "t", "h", "=">> \o Repr(e.path)
    \o <<",", " ", "m", "e", "m", "b", "e", "r", "s", "=">> \o Repr(e.members)
    \o <<",", " ", "e", "x", "c", "l", "u", "d", "e", "_", "m", "e", "m", "b", "e", "r", "s", "=">> \o Repr(e.exclude_members)
    \o <<",", " ", "p", "r", "i", "v", "a", "t", "e", "_", "m", "e", "m", "b", "e", "r", "s", "=">> \o Repr(e.private_members) \o <<")">>

RECURSIVE InsertEntry(_, _)
\* insertion into a list sorted by str; an entry that is in it is not added
InsertEntry(e, s) ==
    IF s = <<>> THEN <<e>>
    ELSE IF e = Head(s) THEN s
    ELSE IF StrLess(EntryStr(e), EntryStr(Head(s))) THEN <<e>> \o s
    ELSE <<Head(s)>> \o InsertEntry(e, Tail(s))

RECURSIVE SortedSetFrom(_, _)
SortedSetFrom(items, acc) ==
    IF items = <<>> THEN acc
    ELSE SortedSetFrom(Tail(items), InsertEntry(Head(items), acc))

\* sorted(set(items), key=str)
SortedSet(items) == SortedSetFrom(items, <<>>)

(***************************************************************************)
(* posixpath: normpath and abspath                                         *)
(***************************************************************************)
RECURSIVE JoinWith(_, _)
\* sep.join(parts)
JoinWith(parts, sep) ==
    IF parts = <<>> THEN <<>>
    ELSE IF Len(parts) = 1 THEN parts[1]
    ELSE parts[1] \o sep \o JoinWith(Tail(parts), sep)

RECURSIVE NormComps(_, _, _)
\* the loop of normpath over the components
NormComps(comps, new_comps, initial_slashes) ==
    IF comps = <<>> THEN new_comps
    ELSE LET comp == Head(comps)
             rest == Tail(comps)
         IN IF comp = <<>> \/ comp = <<".">>
            THEN NormComps(rest, new_comps, initial_slashes)
            ELSE IF \/ comp # <<".", ".">>
                    \/ (initial_slashes = 0 /\ new_comps = <<>>)
                    \/ (new_comps # <<>> /\ new_comps[Len(new_comps)] = <<".", ".">>)
            THEN NormComps(rest, Append(new_comps, comp), initial_slashes)
            ELSE IF new_comps # <<>>
            THEN NormComps(rest, SubSeq(new_comps, 1, Len(new_comps) - 1), initial_slashes)
            ELSE NormComps(rest, new_comps, initial_slashes)

\* os.path.normpath
Normpath(path) ==
    IF path = <<>> THEN <<".">>
    ELSE LET initial_slashes ==
                 IF ~StartsWith(path, <<"/">>) THEN 0
                 ELSE IF StartsWith(path, <<"/", "/">>) /\ ~StartsWith(path, <<"/", "/", "/">>) THEN 2
                 ELSE 1
             joined == JoinWith(NormComps(Split(path, "/"), <<>>, initial_slashes), <<"/">>)
             res == IF initial_slashes = 2 THEN <<"/", "/">> \o joined
                    ELSE IF initial_slashes = 1 THEN <<"/">> \o joined
                    ELSE joined
         IN IF res = <<>> THEN <<".">> ELSE res

\* the working directory of the build
Cwd == <<"/", "w">>

\* os.path.abspath
Abspath(path) ==
    IF StartsWith(path, <<"/">>) THEN Normpath(path) ELSE Normpath(PathJoin(Cwd, path))

(***************************************************************************)
(* generator.py: get_rst_suffix, generate_automodules_docs and             *)
(* process_automodules                                                     *)
(***************************************************************************)
\* app.srcdir and the document of the project, relative to it
SrcDir == <<"/", "s">>
DocName == <<"d", "/", "i", ".", "r", "s", "t">>

\* app.registry.get_source_parsers(): the parser classes by suffix, each with
\* its supported formats; no class is registered for .rst
SourceParsers(suffix) ==
    IF suffix = <<".", "m", "d">> THEN [found |-> TRUE, supported |-> {"markdown"}]
    ELSE IF suffix = <<".", "t", "x", "t">> THEN [found |-> TRUE, supported |-> {"restructuredtext"}]
    ELSE [found |-> FALSE, supported |-> {}]

get_supported_format(suffix) ==
    LET parser_class == SourceParsers(suffix)
    IN IF ~parser_class.found THEN {"restructuredtext"} ELSE parser_class.supported

RECURSIVE get_rst_suffix(_)
\* the first configured suffix that supports reStructuredText, else None
get_rst_suffix(suffixes) ==
    IF suffixes = <<>> THEN None
    ELSE IF "restructuredtext" \in get_supported_format(Head(suffixes))
         THEN Str(Head(suffixes))
         ELSE get_rst_suffix(Tail(suffixes))

\* analyzer.resolve_name(name): the modules of the analyzed code base that an
\* entry name stands for, as a list
resolve_name(name) ==
    IF name = <<"m">> THEN << [name |-> <<"a">>], [name |-> <<"a", "b">>] >>
    ELSE IF name = <<"b">> THEN << [name |-> <<"b">>] >>
    ELSE <<>>

\* needle in hay, for strings: hay has needle as a substring
Contains(hay, needle) ==
    \E i \in 0..(Len(hay) - Len(needle)) :
        SubSeq(hay, i + 1, i + Len(needle)) = needle

\* AutoModulesRenderer._template_vars, the variables the stub is rendered from;
\* with use_short_name the name is the last segment of [module.name]
AutoModulesTemplateVars(name, entry) ==
    [name |-> name,
     members_option |-> entry.members # None,
     members |-> entry.members,
     exclude_members |-> entry.exclude_members,
     is_private |-> entry.private_members # None]

\* template.rst([module.name], entry, use_short_name=True): the text of the
\* stub, which is determined by the template variables
RenderStub(module, entry) == AutoModulesTemplateVars(module.name, entry)

NoFile == [name |-> <<>>, members_option |-> FALSE, members |-> False,
           exclude_members |-> False, is_private |-> FALSE]

\* open(filename, 'w').write(content)
WriteFile(files, fname, content) ==
    [f \in DOMAIN files \cup {fname} |-> IF f = fname THEN content ELSE files[f]]

\* a version of the loop body that writes the stub whatever the file holds
StubStepAlwaysWrite(st, module, entry, path, suffix, overwrite) ==
    IF Contains(entry.exclude_members.str, module.name) THEN st
    ELSE
      LET content == RenderStub(module, entry)
          fname == PathJoin(path, module.name \o suffix)
          isfile == fname \in DOMAIN st.fs
          old_content == IF isfile THEN st.fs[fname] ELSE NoFile
          doc_entry == <<fname, path, module.name, suffix>>
      IN [st EXCEPT !.fs = WriteFile(st.fs, fname, content),
                    !.generated = Append(@, doc_entry),
                    !.trace = Append(@, [entry |-> entry, name |-> module.name,
                                         filename |-> fname, old |-> old_content,
                                         content |-> content, written |-> TRUE])]

\* the body of the loop over the modules of an entry (lines 80-106)
StubStep(st, module, entry, path, suffix, overwrite) ==
    IF Contains(entry.exclude_members.str, module.name) THEN st
    ELSE
      LET content == RenderStub(module, entry)
          fname == PathJoin(path, module.name \o suffix)
          isfile == fname \in DOMAIN st.fs
          old_content == IF isfile THEN st.fs[fname] ELSE NoFile
          write == IF isfile THEN content # old_content /\ overwrite ELSE TRUE
          doc_entry == <<fname, path, module.name, suffix>>
      IN [st EXCEPT !.fs = IF write THEN WriteFile(st.fs, fname, content) ELSE @,
                    !.generated = Append(@, doc_entry),
                    !.trace = Append(@, [entry |-> entry, name |-> module.name,
                                         filename |-> fname, old |-> old_content,
                                         content |-> content, written |-> write])]

RECURSIVE ModulesLoop(_, _, _, _, _, _)
ModulesLoop(st, modules, entry, path, suffix, overwrite) ==
    IF modules = <<>> THEN st
    ELSE ModulesLoop(StubStep(st, Head(modules), entry, path, suffix, overwrite),
                     Tail(modules), entry, path, suffix, overwrite)

RECURSIVE EntriesLoop(_, _, _, _)
\* the loop over the sorted entries (lines 72-106)
EntriesLoop(st, entries, suffix, overwrite) ==
    IF entries = <<>> THEN st
    ELSE LET entry == Head(entries)
             path == Abspath(entry.path.str)
             ensured == [st EXCEPT !.dirs = @ \cup {path}]
         IN EntriesLoop(ModulesLoop(ensured, resolve_name(entry.name), entry,
                                    path, suffix, overwrite),
                        Tail(entries), suffix, overwrite)

\* find_automodules_in_files for the sources, already joined to base_path
find_automodules_in_files(app, sources) ==
    IF sources = <<>> THEN <<>>
    ELSE find_automodules_in_lines(app.doc.lines, Str(sources[1]))

\* generate_automodules_docs(sources, suffix, base_path=app.srcdir, app,
\* overwrite): app holds the disk and the attributes of the application
generate_automodules_docs(app, sources, suffix, overwrite) ==
    LET joined == [i \in 1..Len(sources) |-> PathJoin(SrcDir, sources[i])]
        items == find_automodules_in_files(app, joined)
        start == [app EXCEPT !.generated = <<>>, !.trace = <<>>]
    IN EntriesLoop(start, SortedSet(items), suffix, overwrite)

\* env.found_docs that are files on disk, as paths relative to the srcdir
SourcesOf(app) == IF app.doc.isfile THEN <<DocName>> ELSE <<>>

\* a version that generates with the default suffix when none supports RST
process_automodules_without_suffix_check(app) ==
    LET sources == SourcesOf(app)
        suffix == get_rst_suffix(app.source_suffix)
    IN IF sources = <<>> THEN app
       ELSE generate_automodules_docs(app, sources,
                IF suffix = None THEN <<".", "r", "s", "t">> ELSE suffix.str, TRUE)

process_automodules(app) ==
    LET sources == SourcesOf(app)
        suffix == get_rst_suffix(app.source_suffix)
    IN IF sources = <<>> THEN app
       ELSE IF suffix = None THEN [app EXCEPT !.warnings = @ + 1]
       ELSE generate_automodules_docs(app, sources, suffix.str, TRUE)

\* the lines a project document is written from
GenLinePool ==
    { <<".", ".", " ", "j", "s", ":", "a", "u", "t", "o", "m", "o", "d", "u", "l", "e", "s", ":", ":">>,
      <<" ", " ", " ", ":", "t", "o", "c", "t", "r", "e", "e", ":", " ", "o", "u", "t">>,
      <<" ", " ", " ", ":", "e", "x", "c", "l", "u", "d", "e", "-", "m", "e", "m", "b", "e", "r", "s", ":", " ", "a", "b">>,
      <<" ", " ", " ", ":", "m", "e", "m", "b", "e", "r", "s", ":", " ", "f">>,
      <<" ", " ", " ", "m">>,
      <<" ", " ", " ", "b">> }

GenDocs == UNION {[1..n -> GenLinePool] : n \in 0..MaxDocLines}

Suffixes == {<<".", "r", "s", "t">>, <<".", "m", "d">>, <<".", "t", "x", "t">>}

\* app.config.source_suffix: the configured suffixes, in their order
SuffixConfigs ==
    UNION {{c \in [1..n -> Suffixes] : \A i, j \in 1..n : i # j => c[i] # c[j]}
             : n \in 1..MaxSuffixes}

\* the content of a stub that was left by an earlier version of the project
StaleStub == [name |-> <<"o", "l", "d">>, members_option |-> FALSE, members |-> None,
              exclude_members |-> Str(<<>>), is_private |-> FALSE]

(***************************************************************************)
(* renderers.py: JsRenderer.rst_nodes                                      *)
(***************************************************************************)
\* the segments of object paths
Segments == {<<"a", ".">>, <<"b">>}

\* the partial paths a directive can name, and the segments an exception of
\* the suffix tree can carry
PartialPaths == UNION {[1..n -> Segments] : n \in 1..MaxPathLen}

\* exc.next_possible_keys of SuffixAmbiguous: the segments in front
KeyLists == {<<<<"a", ".">>>>, <<<<"a", ".">>, <<"c", "#">>>>, <<<<"c", "#">>, <<"d", "/">>>>}

\* what analyzer.get_object does for the partial path: it returns an object,
\* or raises SuffixNotFound or SuffixAmbiguous
Lookups ==
    {[kind |-> "found", obj |-> [name |-> n], segments |-> <<>>, next_possible_keys |-> <<>>]
        : n \in {<<"f">>, <<"g">>}}
    \cup {[kind |-> "SuffixNotFound", obj |-> [name |-> <<>>], segments |-> p,
           next_possible_keys |-> <<>>] : p \in PartialPaths}
    \cup {[kind |-> "SuffixAmbiguous", obj |-> [name |-> <<>>], segments |-> p,
           next_possible_keys |-> k] : p \in PartialPaths, k \in KeyLists}

RECURSIVE Concat(_)
\* ''.join(parts)
Concat(parts) == IF parts = <<>> THEN <<>> ELSE Head(parts) \o Concat(Tail(parts))

\* str() of a list of strings
StrOfList(l) ==
    <<"[">> \o JoinWith([i \in 1..Len(l) |-> Repr(Str(l[i]))], <<",", " ">>) \o <<"]">>

NotFoundMessage(segments) ==
    <<"N", "o", " ", "d", "o", "c", "u", "m", "e", "n", "t", "a", "t", "i", "o", "n", " ", "w", "a", "s", " ", "f", "o", "u", "n", "d", " ", "f", "o", "r", " ", "o", "b", "j", "e", "c", "t", " ", "\"">> \o Concat(segments)
    \o <<"\"", " ", "o", "r", " ", "a", "n", "y", " ", "p", "a", "t", "h", " ", "e", "n", "d", "i", "n", "g", " ", "w", "i", "t", "h", " ", "t", "h", "a", "t", ".">>

AmbiguousMessage(segments, keys) ==
    <<"M", "o", "r", "e", " ", "t", "h", "a", "n", " ", "o", "n", "e", " ", "o", "b", "j", "e", "c", "t", " ", "m", "a", "t", "c", "h", "e", "s", " ", "t", "h", "e", " ", "p", "a", "t", "h", " ", "s", "u", "f", "f", "i", "x", " ", "\"">> \o Concat(segments)
    \o <<"\"", ".", " ", "C", "a", "n", "d", "i", "d", "a", "t", "e", " ", "p", "a", "t", "h", "s", " ", "h", "a", "v", "e", " ", "t", "h", "e", "s", "e", " ", "s", "e", "g", "m", "e", "n", "t", "s", " ", "i", "n", " ", "f", "r", "o", "n", "t", ":", " ">> \o StrOfList(keys)

\* self.rst(partial_path, obj, use_short_name): the text rendered by the
\* template, which is determined by the arguments
RenderedRst(pp, o, use_short_name) ==
    [partial_path |-> pp, obj |-> o, use_short_name |-> use_short_name]

\* doc.children after RstParser().parse(rst, doc)
ParsedNodes(rst) == <<[parsed |-> rst]>>

NoResult == [kind |-> "none", message |-> <<>>, nodes |-> <<>>, rst_calls |-> 0]

\* a version that swallows a failed lookup and returns no nodes
rst_nodes_returning_empty(pp, look, use_short_name) ==
    IF look.kind = "found"
    THEN [kind |-> "nodes", message |-> <<>>,
          nodes |-> ParsedNodes(RenderedRst(pp, look.obj, use_short_name)),
          rst_calls |-> 1]
    ELSE [kind |-> "nodes", message |-> <<>>, nodes |-> <<>>, rst_calls |-> 0]

\* the outcome of rst_nodes: the nodes returned or the SphinxError raised,
\* and the number of renderings
rst_nodes(pp, look, use_short_name) ==
    IF look.kind = "SuffixNotFound"
    THEN [kind |-> "SphinxError", message |-> NotFoundMessage(look.segments),
          nodes |-> <<>>, rst_calls |-> 0]
    ELSE IF look.kind = "SuffixAmbiguous"
    THEN [kind |-> "SphinxError",
          message |-> AmbiguousMessage(look.segments, look.next_possible_keys),
          nodes |-> <<>>, rst_calls |-> 0]
    ELSE [kind |-> "nodes", message |-> <<>>,
          nodes |-> ParsedNodes(RenderedRst(pp, look.obj, use_short_name)),
          rst_calls |-> 1]

\* the lines a document is written from
LinePool ==
    { <<".", ".", " ", "j", "s", ":", "a", "u", "t", "o", "m", "o", "d", "u", "l", "e", "s", ":", ":">>,
      <<" ", " ", " ", ":", "t", "o", "c", "t", "r", "e", "e", ":", " ", "o", "u", "t">>,
      <<" ", " ", " ", ":", "m", "e", "m", "b", "e", "r", "s", ":", " ", "f">>,
      <<" ", " ", " ", ":", "e", "x", "c", "l", "u", "d", "e", "-", "m", "e", "m", "b", "e", "r", "s", ":", " ", "a", "b">>,
      <<" ", " ", " ", ":", "p", "r", "i", "v", "a", "t", "e", "-", "m", "e", "m", "b", "e", "r", "s", ":">>,
      <<" ", " ", " ", ":", "c", "a", "p", "t", "i", "o", "n", ":", " ", "x">>,
      <<>>,
      <<" ", " ", " ", "m">>,
      <<" ", " ", " ", "~", "x", ".", "y", " ", "z">>,
      <<"t", "e", "x", "t">> }

Filenames == {None, Str(<<"/", "s", "/", "d", "/", "i", ".", "r", "s", "t">>), Str(<<"i", ".", "r", "s", "t">>)}

LineLists == UNION {[1..n -> LinePool] : n \in 0..MaxLines}

\* the lines a document with several js:automodules blocks is written from:
\* a directive line, a directive line nested in the content of a block, the
\* four options, an item and a line that ends a block
BlockLinePool ==
    { <<".", ".", " ", "j", "s", ":", "a", "u", "t", "o", "m", "o", "d", "u", "l", "e", "s", ":", ":">>,
      <<" ", " ", " ", ".", ".", " ", "j", "s", ":", "a", "u", "t", "o", "m", "o", "d", "u", "l", "e", "s", ":", ":">>,
      <<" ", " ", " ", ":", "t", "o", "c", "t", "r", "e", "e", ":", " ", "o", "u", "t">>,
      <<" ", " ", " ", ":", "m", "e", "m", "b", "e", "r", "s", ":", " ", "f">>,
      <<" ", " ", " ", ":", "e", "x", "c", "l", "u", "d", "e", "-", "m", "e", "m", "b", "e", "r", "s", ":", " ", "a", "b">>,
      <<" ", " ", " ", ":", "p", "r", "i", "v", "a", "t", "e", "-", "m", "e", "m", "b", "e", "r", "s", ":">>,
      <<" ", " ", " ", "m">>,
      <<"t", "e", "x", "t">> }

BlockFilenames == {None, Str(<<"/", "s", "/", "d", "/", "i", ".", "r", "s", "t">>)}

BlockLineLists == UNION {[1..n -> BlockLinePool] : n \in 0..MaxBlockLines}

(***************************************************************************)
(* The IR of members.  A member has a short name, a path whose segments    *)
(* are strings (the parent segment, then the name), a kind (Function or    *)
(* an attribute) and a privacy flag.  Python orders the segment strings by *)
(* code point; SegOrd gives that order for the segments used here.         *)
(***************************************************************************)
Names == {"a", "b"}
Parents == {"C#", "C."}
Star == "*"

SegOrd(s) ==
    CASE s = "C#" -> 1      \* '#' is 0x23
      [] s = "C." -> 2      \* '.' is 0x2e
      [] s = "a"  -> 3
      [] s = "b"  -> 4
      [] s = "c"  -> 5
      [] OTHER    -> 0

RECURSIVE SegmentsLess(_, _)
\* list < list in Python: lexicographic, a proper prefix is smaller
SegmentsLess(p, q) ==
    IF q = <<>> THEN FALSE
    ELSE IF p = <<>> THEN TRUE
    ELSE IF SegOrd(Head(p)) < SegOrd(Head(q)) THEN TRUE
    ELSE IF SegOrd(Head(p)) > SegOrd(Head(q)) THEN FALSE
    ELSE SegmentsLess(Tail(p), Tail(q))

Member(n, par, f, pr) ==
    [name |-> n, path |-> <<par, n>>, isFunction |-> f, is_private |-> pr]

AllMembers == {Member(n, par, f, pr) : n \in Names, par \in Parents,
                                       f \in BOOLEAN, pr \in BOOLEAN}

\* obj.members: members are distinct IR objects with distinct paths
MemberLists ==
    UNION {{s \in [1..n -> AllMembers] :
              \A i, j \in 1..n : i # j => s[i].path # s[j].path} : n \in 0..MaxMembers}

IncludeNames == Names \cup {Star}

\* the values of the :members: option: None, or a list of names
IncludeValues ==
    {[none |-> TRUE, list |-> <<>>]} \cup
    {[none |-> FALSE, list |-> l] : l \in UNION {[1..n -> IncludeNames] : n \in 0..MaxInclude}}

(***************************************************************************)
(* renderers.py: _members_to_include                                       *)
(***************************************************************************)
\* a sort key that leaves the kind out
sort_by_path_only_less(m1, m2) == SegmentsLess(m1.path, m2.path)

\* the sort key (isinstance(obj, Function), obj.path.segments), compared as
\* a tuple: False < True, then the segments
sort_attributes_first_then_by_path_less(m1, m2) ==
    \/ (~m1.isFunction /\ m2.isFunction)
    \/ (m1.isFunction = m2.isFunction /\ SegmentsLess(m1.path, m2.path))

RECURSIVE InsertByPath(_, _)
\* stable insertion: m goes after every element that is not greater
InsertByPath(m, s) ==
    IF s = <<>> THEN <<m>>
    ELSE IF sort_attributes_first_then_by_path_less(m, Head(s))
         THEN <<m>> \o s
         ELSE <<Head(s)>> \o InsertByPath(m, Tail(s))

RECURSIVE SortedByPathFrom(_, _)
SortedByPathFrom(s, acc) ==
    IF s = <<>> THEN acc
    ELSE SortedByPathFrom(Tail(s), InsertByPath(Head(s), acc))

\* sorted(members, key=sort_attributes_first_then_by_path): a stable sort
SortedByPath(s) == SortedByPathFrom(s, <<>>)

RECURSIVE InsertByIndexUnstable(_, _, _)
\* an insertion that puts m before the elements of equal key
InsertByIndexUnstable(m, s, inc) ==
    IF s = <<>> THEN <<m>>
    ELSE IF Index(inc, m.name) <= Index(inc, Head(s).name)
         THEN <<m>> \o s
         ELSE <<Head(s)>> \o InsertByIndexUnstable(m, Tail(s), inc)

RECURSIVE InsertByIndex(_, _, _)
\* stable insertion by the key include.index(m.name)
InsertByIndex(m, s, inc) ==
    IF s = <<>> THEN <<m>>
    ELSE IF Index(inc, m.name) < Index(inc, Head(s).name)
         THEN <<m>> \o s
         ELSE <<Head(s)>> \o InsertByIndex(m, Tail(s), inc)

RECURSIVE SortedByIndexFrom(_, _, _)
SortedByIndexFrom(s, acc, inc) ==
    IF s = <<>> THEN acc
    ELSE SortedByIndexFrom(Tail(s), InsertByIndex(Head(s), acc, inc), inc)

\* included_members.sort(key=lambda m: include.index(m.name)): a stable sort
SortedByIndex(s, inc) == SortedByIndexFrom(s, <<>>, inc)

NamesOf(s) == [i \in 1..Len(s) |-> s[i].name]

_members_to_include(o, inc) ==
    LET members == o.members IN
    IF inc.none \/ inc.list = <<>>
    THEN SortedByPath(members)
    ELSE
      LET included_set == Range(inc.list)
          hasStar == Star \in included_set
          star_index == Index(inc.list, Star)
          sorted_not_included_members ==
              SortedByPath(RejectSeqBy(members, included_set))
          not_included == NamesOf(sorted_not_included_members)
          include2 == IF hasStar
                      THEN SubSeq(inc.list, 1, star_index - 1) \o not_included
                           \o SubSeq(inc.list, star_index + 1, Len(inc.list))
                      ELSE inc.list
          included_set2 == IF hasStar
                           THEN included_set \cup Range(not_included)
                           ELSE included_set
          included_members == SelectSeqBy(members, included_set2)
      IN SortedByIndex(included_members, include2)

(***************************************************************************)
(* renderers.py: AutoClassRenderer._members_of and                         *)
(* AutoNamespaceRenderer._members_of (the two bodies are the same)         *)
(***************************************************************************)
RECURSIVE FilterRenderedNoExclude(_, _, _)
\* a filter that looks at the access specifier only
FilterRenderedNoExclude(s, excl, should_include_private) ==
    IF s = <<>> THEN <<>>
    ELSE LET member == Head(s)
             rest == FilterRenderedNoExclude(Tail(s), excl, should_include_private)
         IN IF ~member.is_private \/ should_include_private
            THEN <<member>> \o rest
            ELSE rest

RECURSIVE FilterRendered(_, _, _)
\* the condition of the generator expression that is joined
FilterRendered(s, excl, should_include_private) ==
    IF s = <<>> THEN <<>>
    ELSE LET member == Head(s)
             rest == FilterRendered(Tail(s), excl, should_include_private)
         IN IF /\ (~member.is_private
                   \/ (member.is_private /\ should_include_private))
               /\ member.name \notin excl
            THEN <<member>> \o rest
            ELSE rest

\* the members whose RST is joined, in the order of the join
_members_of(o, inc, excl, should_include_private) ==
    FilterRendered(_members_to_include(o, inc), excl, should_include_private)

(***************************************************************************)
(* renderers.py: JsRenderer._formal_params                                 *)
(***************************************************************************)
\* a parameter of the IR
Param(name, is_variadic, has_default, default) ==
    [name |-> name, is_variadic |-> is_variadic,
     has_default |-> has_default, default |-> default]

RECURSIVE FormalsLoop(_, _, _)
\* the loop over obj.params
FormalsLoop(ps, formals, used_names) ==
    IF ps = <<>> THEN formals
    ELSE LET param == Head(ps)
             first == Split(param.name, ".")[1]
             name == IF param.is_variadic THEN <<".", ".", ".">> \o first ELSE first
         IN IF name \notin used_names
            THEN FormalsLoop(Tail(ps),
                             Append(formals, IF ~param.has_default THEN name
                                             ELSE name \o <<"=">> \o param.default),
                             used_names \cup {name})
            ELSE FormalsLoop(Tail(ps), formals, used_names)

_formal_params(explicit, ps) ==
    IF explicit # <<>> THEN explicit
    ELSE <<"(">> \o JoinWith(FormalsLoop(ps, <<>>, {}), <<",", " ">>) \o <<")">>

\* the parameters of a function or class: a name or a subproperty of it,
\* variadic or not, without a default or with the default 1
ParamNames == {<<"a">>, <<"a", ".", "b">>, <<"b">>}

ParamPool ==
    {Param(n, v, FALSE, <<>>) : n \in ParamNames, v \in BOOLEAN}
    \cup {Param(n, v, TRUE, <<"1">>) : n \in ParamNames, v \in BOOLEAN}

ParamLists == UNION {[1..n -> ParamPool] : n \in 0..MaxParams}

\* the parameter list written in the directive, '' when there is none
ExplicitFormalParams == {<<>>, <<"(", "x", ")">>}

(***************************************************************************)
(* renderers.py: JsRenderer._default_options                               *)
(***************************************************************************)
\* the Python values of an option and of a configured default: None, a bool,
\* an int, a string or a list of strings
PyNone == [kind |-> "None", int |-> 0, str |-> <<>>, list |-> <<>>]
PyBool(b) == [kind |-> "bool", int |-> IF b THEN 1 ELSE 0, str |-> <<>>, list |-> <<>>]
PyInt(n) == [kind |-> "int", int |-> n, str |-> <<>>, list |-> <<>>]
PyStr(s) == [kind |-> "str", int |-> 0, str |-> s, list |-> <<>>]
PyList(l) == [kind |-> "list", int |-> 0, str |-> <<>>, list |-> l]

\* v == w: a bool is an int, True == 1 and False == 0
PyEq(v, w) ==
    IF v.kind \in {"bool", "int"} /\ w.kind \in {"bool", "int"}
    THEN v.int = w.int
    ELSE v = w

\* membership in a list by identity only
PyInByIdentity(val, values) == \E k \in 1..Len(values) : val = values[k]

\* val in values, for a list: some item is val or equals it
PyIn(val, values) == \E k \in 1..Len(values) : val = values[k] \/ PyEq(val, values[k])

\* [val.strip() for val in parts]
StripEach(parts) == [k \in 1..Len(parts) |-> Strip(parts[k])]

DefaultOptionNames == <<"members", "private-members">>
extendable_options == <<"members">>

\* the body of the loop for one option name
DefaultOption(name, active, cfg) ==
    IF name \in DOMAIN cfg
    THEN IF name \in DOMAIN active
         THEN IF cfg[name].kind = "str" /\ active[name].kind = "list"
              THEN IF name \in Range(extendable_options)
                   THEN [active EXCEPT ![name] =
                            PyList(@.list \o StripEach(Split(cfg[name].str, ",")))]
                   ELSE active
              ELSE active
         ELSE IF PyIn(cfg[name], <<PyBool(TRUE), PyNone, PyStr(<<"1">>)>>)
              THEN [n \in DOMAIN active \cup {name} |->
                        IF n = name THEN PyNone ELSE active[n]]
              ELSE active
    ELSE active

RECURSIVE DefaultOptionsLoop(_, _, _)
DefaultOptionsLoop(names, active, cfg) ==
    IF names = <<>> THEN active
    ELSE DefaultOptionsLoop(Tail(names), DefaultOption(Head(names), active, cfg), cfg)

_default_options(active, cfg) == DefaultOptionsLoop(DefaultOptionNames, active, cfg)

\* the options of a directive, converted by its option_spec: members is
\* None or a list of names, the flags private-members and short-name are None
MemberOptionLists == UNION {[1..n -> {<<"x">>, <<"y">>}] : n \in 1..MaxOptionNames}

DirectiveOptionValues(name) ==
    IF name = "members" THEN {PyNone} \cup {PyList(l) : l \in MemberOptionLists}
    ELSE {PyNone}

DirectiveOptions ==
    UNION {{f \in [D -> {PyNone} \cup {PyList(l) : l \in MemberOptionLists}] :
                \A n \in D : f[n] \in DirectiveOptionValues(n)} :
           D \in SUBSET {"members", "private-members", "short-name"}}

\* the values a default is configured with
ConfigValues ==
    {PyBool(TRUE), PyBool(FALSE), PyNone, PyInt(1), PyInt(0),
     PyStr(<<"1">>), PyStr(<<"a", ",", " ", "b">>), PyStr(<<>>), PyList(<<<<"a">>>>)}

ConfigDefaultOptions ==
    UNION {{f \in [D -> ConfigValues] : "short-name" \in D => f["short-name"] = PyBool(TRUE)} :
           D \in SUBSET {"members", "private-members", "short-name"}}

(***************************************************************************)
(* Specification of the member selection                                   *)
(***************************************************************************)
NoInclude == [none |-> TRUE, list |-> <<>>]

\* a dict without keys
EmptyDict == [n \in {} |-> <<>>]

\* the state of the parts that a specification does not exercise
MemberIdle ==
    /\ obj = [members |-> <<>>]
    /\ include = NoInclude
    /\ exclude = {}
    /\ priv = FALSE
    /\ included = <<>>
    /\ rendered = <<>>

ExcludeIdle ==
    /\ arg = [none |-> TRUE, str |-> <<>>]
    /\ excluded = {}

LinesIdle ==
    /\ lines = <<>>
    /\ filename = None
    /\ documented = <<>>

NodesIdle ==
    /\ partial_path = <<>>
    /\ short_name = FALSE
    /\ lookup = [kind |-> "none"]
    /\ result = NoResult

ParamsIdle ==
    /\ explicit_formal_params = <<>>
    /\ params = <<>>
    /\ formal_params = <<>>

OptionsIdle ==
    /\ options = EmptyDict
    /\ config_default_options = EmptyDict
    /\ options_active = EmptyDict

RendererIdle == ParamsIdle /\ OptionsIdle

GenIdle ==
    /\ doc = [lines |-> <<>>, isfile |-> FALSE]
    /\ source_suffix = <<>>
    /\ fs = <<>>
    /\ dirs = {}
    /\ generated = <<>>
    /\ trace = <<>>
    /\ warnings = 0
    /\ builds = 0

Init ==
    /\ op = "init"
    /\ RendererIdle
    /\ NodesIdle
    /\ ExcludeIdle
    /\ LinesIdle
    /\ GenIdle
    /\ obj \in {[members |-> ms] : ms \in MemberLists}
    /\ include = NoInclude
    /\ exclude = {}
    /\ priv = FALSE
    /\ included = <<>>
    /\ rendered = <<>>

\* A renderer is built for one directive and renders it once.
MembersToInclude ==
    \E inc \in IncludeValues :
        /\ op = "init"
        /\ op' = "_members_to_include"
        /\ include' = inc
        /\ included' = _members_to_include(obj, inc)
        /\ exclude' = {}
        /\ priv' = FALSE
        /\ rendered' = <<>>
        /\ UNCHANGED <<obj, excludeVars, lineVars, genVars, nodeVars, rendererVars>>

\* AutoClassRenderer._template_vars / AutoNamespaceRenderer._template_vars:
\* the members are rendered only when the 'members' option is present
TemplateVars ==
    \E hasMembers \in BOOLEAN, inc \in IncludeValues,
       excl \in SUBSET Names, p \in BOOLEAN :
        /\ op = "init"
        /\ IF hasMembers
           THEN /\ op' = "_members_of"
                /\ include' = inc
                /\ exclude' = excl
                /\ priv' = p
                /\ included' = _members_to_include(obj, inc)
                /\ rendered' = _members_of(obj, inc, excl, p)
           ELSE /\ op' = "_template_vars"
                /\ inc = NoInclude /\ excl = {} /\ p = FALSE
                /\ UNCHANGED <<include, exclude, priv, included, rendered>>
        /\ UNCHANGED <<obj, excludeVars, lineVars, genVars, nodeVars, rendererVars>>

Next == MembersToInclude \/ TemplateVars

Spec == Init /\ [][Next]_vars

(***************************************************************************)
(* Specification of the parsing of :exclude-members:                       *)
(***************************************************************************)
InitExclude ==
    /\ op = "init"
    /\ RendererIdle
    /\ NodesIdle
    /\ MemberIdle
    /\ LinesIdle
    /\ GenIdle
    /\ arg \in ArgValues
    /\ excluded = {}

\* the option conversion runs once for a directive
MembersToExclude ==
    /\ op = "init"
    /\ op' = "_members_to_exclude"
    /\ excluded' = _members_to_exclude(arg)
    /\ UNCHANGED <<arg, memberVars, lineVars, genVars, nodeVars, rendererVars>>

NextExclude == MembersToExclude

SpecExclude == InitExclude /\ [][NextExclude]_vars

(***************************************************************************)
(* Specification of the scan for js:automodules entries                    *)
(***************************************************************************)
InitLines ==
    /\ op = "init"
    /\ RendererIdle
    /\ NodesIdle
    /\ MemberIdle
    /\ ExcludeIdle
    /\ GenIdle
    /\ lines \in LineLists
    /\ filename \in Filenames
    /\ documented = <<>>

FindAutomodulesInLines ==
    /\ op = "init"
    /\ op' = "find_automodules_in_lines"
    /\ documented' = find_automodules_in_lines(lines, filename)
    /\ UNCHANGED <<lines, filename, memberVars, excludeVars, genVars, nodeVars, rendererVars>>

NextLines == FindAutomodulesInLines

SpecLines == InitLines /\ [][NextLines]_vars

(***************************************************************************)
(* Specification of the scan of a document with several blocks             *)
(***************************************************************************)
InitBlocks ==
    /\ op = "init"
    /\ RendererIdle
    /\ NodesIdle
    /\ MemberIdle
    /\ ExcludeIdle
    /\ GenIdle
    /\ lines \in BlockLineLists
    /\ filename \in BlockFilenames
    /\ documented = <<>>

NextBlocks == FindAutomodulesInLines

SpecBlocks == InitBlocks /\ [][NextBlocks]_vars

(***************************************************************************)
(* Specification of the generation of the stub files                       *)
(***************************************************************************)
App == [doc |-> doc, source_suffix |-> source_suffix, fs |-> fs, dirs |-> dirs,
        generated |-> generated, trace |-> trace, warnings |-> warnings]

InitGen ==
    /\ op = "init"
    /\ RendererIdle
    /\ NodesIdle
    /\ MemberIdle
    /\ ExcludeIdle
    /\ LinesIdle
    /\ doc \in {[lines |-> ls, isfile |-> f] : ls \in GenDocs, f \in BOOLEAN}
    /\ source_suffix \in SuffixConfigs
    /\ fs = <<>>
    /\ dirs = {}
    /\ generated = <<>>
    /\ trace = <<>>
    /\ warnings = 0
    /\ builds = 0

\* the application state after a call that returned the record a
SetApp(a) ==
    /\ fs' = a.fs
    /\ dirs' = a.dirs
    /\ generated' = a.generated
    /\ trace' = a.trace
    /\ warnings' = a.warnings
    /\ UNCHANGED <<doc, source_suffix>>

\* the builder-inited handler of a build
ProcessAutomodules ==
    /\ builds < MaxBuilds
    /\ builds' = builds + 1
    /\ op' = "process_automodules"
    /\ SetApp(process_automodules([App EXCEPT !.trace = <<>>]))
    /\ UNCHANGED <<memberVars, excludeVars, lineVars, nodeVars, rendererVars>>

\* a direct call with the default suffix on the documents that exist
GenerateAutomodulesDocs ==
    \E overwrite \in BOOLEAN :
        /\ builds < MaxBuilds
        /\ doc.isfile
        /\ builds' = builds + 1
        /\ op' = "generate_automodules_docs"
        /\ SetApp(generate_automodules_docs(App, SourcesOf(App), <<".", "r", "s", "t">>,
                                            overwrite))
        /\ UNCHANGED <<memberVars, excludeVars, lineVars, nodeVars, rendererVars>>

\* between two builds a stub file is replaced by an older version of it
TouchStub ==
    \E f \in DOMAIN fs :
        /\ builds < MaxBuilds
        /\ fs[f] # StaleStub
        /\ op' = "touch"
        /\ fs' = [fs EXCEPT ![f] = StaleStub]
        /\ UNCHANGED <<doc, source_suffix, dirs, generated, trace, warnings, builds>>
        /\ UNCHANGED <<memberVars, excludeVars, lineVars, nodeVars, rendererVars>>

NextGen == ProcessAutomodules \/ GenerateAutomodulesDocs \/ TouchStub

SpecGen == InitGen /\ [][NextGen]_vars

(***************************************************************************)
(* Specification of rst_nodes                                              *)
(***************************************************************************)
InitNodes ==
    /\ op = "init"
    /\ RendererIdle
    /\ MemberIdle
    /\ ExcludeIdle
    /\ LinesIdle
    /\ GenIdle
    /\ partial_path \in PartialPaths
    /\ short_name \in BOOLEAN
    /\ lookup \in Lookups
    /\ result = NoResult

\* the run of a directive
RstNodes ==
    /\ op = "init"
    /\ op' = "rst_nodes"
    /\ result' = rst_nodes(partial_path, lookup, short_name)
    /\ UNCHANGED <<partial_path, short_name, lookup>>
    /\ UNCHANGED <<memberVars, excludeVars, lineVars, genVars, rendererVars>>

NextNodes == RstNodes

SpecNodes == InitNodes /\ [][NextNodes]_vars

(***************************************************************************)
(* Specification of the formal parameters                                  *)
(***************************************************************************)
InitParams ==
    /\ op = "init"
    /\ MemberIdle
    /\ ExcludeIdle
    /\ LinesIdle
    /\ GenIdle
    /\ NodesIdle
    /\ OptionsIdle
    /\ explicit_formal_params \in ExplicitFormalParams
    /\ params \in ParamLists
    /\ formal_params = <<>>

\* the signature of a function or class is rendered once
FormalParams ==
    /\ op = "init"
    /\ op' = "_formal_params"
    /\ formal_params' = _formal_params(explicit_formal_params, params)
    /\ UNCHANGED <<explicit_formal_params, params>>
    /\ UNCHANGED <<memberVars, excludeVars, lineVars, genVars, nodeVars, optionVars>>

NextParams == FormalParams

SpecParams == InitParams /\ [][NextParams]_vars

(***************************************************************************)
(* Specification of the default options                                    *)
(***************************************************************************)
InitOptions ==
    /\ op = "init"
    /\ MemberIdle
    /\ ExcludeIdle
    /\ LinesIdle
    /\ GenIdle
    /\ NodesIdle
    /\ ParamsIdle
    /\ options \in DirectiveOptions
    /\ config_default_options \in ConfigDefaultOptions
    /\ options_active = options

\* the constructor of a renderer applies the defaults
DefaultOptions ==
    /\ op = "init"
    /\ op' = "_default_options"
    /\ options_active' = _default_options(options, config_default_options)
    /\ UNCHANGED <<options, config_default_options>>
    /\ UNCHANGED <<memberVars, excludeVars, lineVars, genVars, nodeVars, paramVars>>

NextOptions == DefaultOptions

SpecOptions == InitOptions /\ [][NextOptions]_vars

(***************************************************************************)
(* Properties of the member selection                                      *)
(***************************************************************************)
Called == op \in {"_members_to_include", "_members_of"}

IncludeAll == include.none \/ include.list = <<>>
HasStar == ~IncludeAll /\ Star \in Range(include.list)

\* s holds each element of the set S exactly once
ListsExactly(s, S) == Range(s) = S /\ Len(s) = Cardinality(S)

\* non-Function members before Function members, ascending paths in a kind
KindThenPathSorted(s) ==
    \A i, j \in 1..Len(s) : i < j =>
        /\ s[i].isFunction => s[j].isFunction
        /\ s[i].isFunction = s[j].isFunction => ~SegmentsLess(s[j].path, s[i].path)

\* the members named in the list l, ordered by the first position of their
\* name in l, members of one name in their order in obj.members
RECURSIVE NamedInOrder(_, _, _)
NamedInOrder(members, l, seen) ==
    IF l = <<>> THEN <<>>
    ELSE IF Head(l) \in seen
         THEN NamedInOrder(members, Tail(l), seen)
         ELSE SelectSeq(members, LAMBDA m : m.name = Head(l))
              \o NamedInOrder(members, Tail(l), seen \cup {Head(l)})

\* C3: with an empty or None include the result holds every member of obj
\* exactly once, attributes before Functions and ascending by path segments
\* within each kind.
C3_AllSorted ==
    (Called /\ IncludeAll) =>
        /\ ListsExactly(included, Range(obj.members))
        /\ KindThenPathSorted(included)

C3_Witness ==
    /\ Called /\ IncludeAll
    /\ Len(included) = 3
    /\ included # obj.members
    /\ \E i, j \in 1..3 : included[i].isFunction /\ ~included[j].isFunction

\* C2: with a non-empty include without '*' the result is exactly the members
\* whose name occurs in include, ordered by the first position of their name
\* in include; members of one name are all kept, in their obj.members order.
C2_ExplicitOrder ==
    (Called /\ ~IncludeAll /\ ~HasStar) =>
        /\ ListsExactly(included,
                        {m \in Range(obj.members) : m.name \in Range(include.list)})
        /\ \A i, j \in 1..Len(included) : i < j =>
              /\ Index(include.list, included[i].name)
                    <= Index(include.list, included[j].name)
              /\ included[i].name = included[j].name =>
                    Index(obj.members, included[i]) < Index(obj.members, included[j])

C2_Witness ==
    /\ Called /\ ~IncludeAll /\ ~HasStar
    /\ Len(included) = 3
    /\ included # obj.members
    /\ \E i, j \in 1..3 : i # j /\ included[i].name = included[j].name

\* C1 as claimed: with '*' in include the result is the members named before
\* '*' in listed order, then every member whose name is not in include sorted
\* by kind then path, then the members named after '*' in listed order.
C1_Expected ==
    LET l == include.list
        star == Index(l, Star)
        before == SubSeq(l, 1, star - 1)
        after == SubSeq(l, star + 1, Len(l))
    IN NamedInOrder(obj.members, before, {})
       \o SortedByPath(RejectSeqBy(obj.members, Range(l)))
       \o NamedInOrder(obj.members, after, Range(before))

C1_WildcardOrder ==
    (Called /\ HasStar) => included = C1_Expected

\* C7: a member is rendered iff _members_to_include returns it, its name is
\* not in exclude, and it is not private or private members are asked for;
\* the rendered members keep the order of _members_to_include.
C7_RenderedIff ==
    op = "_members_of" =>
        /\ \A m \in AllMembers :
              m \in Range(rendered) <=>
                  /\ m \in Range(included)
                  /\ m.name \notin exclude
                  /\ (~m.is_private \/ priv)
        /\ Len(rendered) = Cardinality(Range(rendered))
        /\ \A i, j \in 1..Len(rendered) : i < j =>
              Index(included, rendered[i]) < Index(included, rendered[j])

C7_Witness ==
    /\ op = "_members_of"
    /\ ~IncludeAll
    /\ \E m \in Range(obj.members) :
          m.name \in exclude /\ m.name \in Range(include.list)
    /\ \E m \in Range(included) : m.is_private /\ m.name \notin exclude
    /\ Len(rendered) >= 2
    /\ Len(rendered) < Len(included)

(***************************************************************************)
(* Properties of _members_to_exclude                                       *)
(***************************************************************************)
\* the names a member can have: not empty, no comma, no white space
MemberNameStrings == StringsUpTo({"a", "b"}, MaxArgLen) \ {<<>>}

\* the positions <<i, j>> of the comma-delimited items of s: s[i..j] has no
\* comma and is bounded by commas or the ends of s
ItemsOf(s) ==
    {ij \in (1..(Len(s) + 1)) \X (0..Len(s)) :
        /\ ij[2] >= ij[1] - 1
        /\ \A k \in ij[1]..ij[2] : s[k] # ","
        /\ (ij[1] = 1 \/ s[ij[1] - 1] = ",")
        /\ (ij[2] = Len(s) \/ s[ij[2] + 1] = ",")}

\* t without its leading and trailing white space, by positions
Stripped(t) ==
    LET ink == {k \in 1..Len(t) : ~IsSpace(t[k])}
    IN IF ink = {} THEN <<>>
       ELSE SubSeq(t, CHOOSE k \in ink : \A l \in ink : k <= l,
                      CHOOSE k \in ink : \A l \in ink : k >= l)

\* C9: for None or the empty string the returned set excludes no member; for
\* a comma-delimited list it is exactly the set of the stripped items.
C9_ExcludeSet ==
    op = "_members_to_exclude" =>
        /\ (arg.none \/ arg.str = <<>>) =>
              \A n \in MemberNameStrings : n \notin excluded
        /\ (~arg.none /\ arg.str # <<>>) =>
              excluded = {Stripped(SubSeq(arg.str, ij[1], ij[2])) : ij \in ItemsOf(arg.str)}

C9_Witness ==
    /\ op = "_members_to_exclude"
    /\ ~arg.none
    /\ arg.str = <<"a", ",", " ", "b">>
    /\ excluded = {<<"a">>, <<"b">>}

(***************************************************************************)
(* Properties of find_automodules_in_lines                                 *)
(***************************************************************************)
\* the values of the :toctree: options written in the lines
ToctreeValues == {toctree_arg_re(lines[i]).group :
                    i \in {j \in 1..Len(lines) : toctree_arg_re(lines[j]).matched}}

\* C10 as claimed: the toctree field of an entry is None when its directive
\* has no :toctree: option, so it is None in a document without any such
\* option; a field that is set is an option's value joined to the directory
\* of the filename.
C10_ToctreeNoneUnlessSet ==
    op = "find_automodules_in_lines" =>
        \A k \in 1..Len(documented) :
            /\ ToctreeValues = {} => documented[k].path = None
            /\ documented[k].path # None =>
                  \E v \in ToctreeValues :
                      documented[k].path =
                          IF filename.kind = "None" \/ filename.str = <<>>
                          THEN Str(v)
                          ELSE Str(PathJoin(Dirname(filename.str), v))

\* a line that is read as an option inside a block
IsOptionLine(line) ==
    \/ toctree_arg_re(line).matched
    \/ members_arg_re(line).matched
    \/ exclude_members_arg_re(line).matched
    \/ private_members_arg_re(line).matched
    \/ StartsWith(Strip(line), <<":">>)

\* a line that names an item inside a block
IsItemLine(line) == ~IsOptionLine(line) /\ automodules_item_re(line).matched

\* a line that belongs to the block of a directive line with the given indent
IsBlockContent(indent, line) ==
    \/ IsOptionLine(line)
    \/ automodules_item_re(line).matched
    \/ Strip(line) = <<>>
    \/ StartsWith(line, indent \o <<" ">>)

\* line i is in the block that the directive line d opens
InBlockOf(d, i) ==
    /\ d < i
    /\ automodules_re(lines[d]).matched
    /\ \A j \in (d + 1)..i : IsBlockContent(automodules_re(lines[d]).group, lines[j])

BlocksAround(i) == {d \in 1..Len(lines) : InBlockOf(d, i)}

\* the directive line of the block of line i: the outermost one, a directive
\* line in the content of a block is content
BlockOf(i) == CHOOSE d \in BlocksAround(i) : \A e \in BlocksAround(i) : d <= e

\* the item lines inside blocks, each of them gives an entry
ItemLines == {i \in 1..Len(lines) : IsItemLine(lines[i]) /\ BlocksAround(i) # {}}

ItemLineAt(k) == CHOOSE i \in ItemLines : Cardinality({j \in ItemLines : j <= i}) = k

\* the lines after the directive line d and before line i that the option
\* regular expression matches
OptionLinesBetween(re(_), d, i) == {j \in (d + 1)..(i - 1) : re(lines[j]).matched}

\* the value of an option read last after the directive line d and before
\* line i, the default when the option is not read there
ReadSoFar(re(_), d, i, default) ==
    LET js == OptionLinesBetween(re, d, i)
        last == CHOOSE j \in js : \A l \in js : l <= j
    IN IF js = {} THEN default ELSE Str(Strip(re(lines[last]).group))

\* the toctree is joined to the directory of the file name
ToctreeReadSoFar(d, i) ==
    LET js == OptionLinesBetween(toctree_arg_re, d, i)
        last == CHOOSE j \in js : \A l \in js : l <= j
        v == toctree_arg_re(lines[last]).group
    IN IF js = {} THEN Str(<<"_", "a", "u", "t", "o", "m", "o", "d", "u", "l", "e", "s">>)
       ELSE IF filename.kind = "None" \/ filename.str = <<>> THEN Str(v)
       ELSE Str(PathJoin(Dirname(filename.str), v))

OptionsOf(e) ==
    [path |-> e.path, members |-> e.members,
     exclude_members |-> e.exclude_members, private_members |-> e.private_members]

OptionsReadSoFar(d, i) ==
    [path |-> ToctreeReadSoFar(d, i),
     members |-> ReadSoFar(members_arg_re, d, i, None),
     exclude_members |-> ReadSoFar(exclude_members_arg_re, d, i, Str(<<>>)),
     private_members |-> ReadSoFar(private_members_arg_re, d, i, None)]

\* C11: every entry carries the values of the four options read so far in its
\* own js:automodules block, that is after the directive line of the block and
\* before the item line of the entry; an option that is not read there has
\* the default that the directive line resets it to, so an option of an
\* earlier block is in no entry of a later block.
C11_OptionsOfOwnBlock ==
    op = "find_automodules_in_lines" =>
        /\ Len(documented) = Cardinality(ItemLines)
        /\ \A k \in 1..Len(documented) :
              OptionsOf(documented[k]) =
                  OptionsReadSoFar(BlockOf(ItemLineAt(k)), ItemLineAt(k))

\* an entry of a second block, after a first block with a :members: option,
\* has the default of the option
C11_Witness ==
    /\ op = "find_automodules_in_lines"
    /\ Len(documented) = 1
    /\ documented[1].members = None
    /\ \E i \in ItemLines :
          /\ \E d \in 1..(BlockOf(i) - 1) :
                /\ automodules_re(lines[d]).matched
                /\ OptionLinesBetween(members_arg_re, d, BlockOf(i)) # {}

(***************************************************************************)
(* Properties of the generation of the stub files                          *)
(***************************************************************************)
Generated == op \in {"process_automodules", "generate_automodules_docs"}

\* the entries of the document, in the order they are gone through
DocEntries ==
    SortedSet(find_automodules_in_lines(doc.lines, Str(PathJoin(SrcDir, DocName))))

\* a step that is a call of process_automodules or generate_automodules_docs
BuildStep == builds' = builds + 1

\* the files that the step wrote
WrittenFiles == {trace'[i].filename : i \in {j \in 1..Len(trace') : trace'[j].written}}

\* C4: a stub file is written only when it does not exist or its content
\* differs from the newly rendered content; a file of equal content is left
\* untouched and its module is still recorded in generated_automodules_docs;
\* a file that is not written keeps its content.
C4_WriteOnlyWhenChanged ==
    [][BuildStep =>
        /\ \A i \in 1..Len(trace') :
              LET t == trace'[i] IN
              /\ t.written => (t.old = NoFile \/ t.old # t.content)
              /\ t.old = t.content =>
                    /\ ~t.written
                    /\ \E k \in 1..Len(generated') :
                          generated'[k][1] = t.filename /\ generated'[k][3] = t.name
        /\ \A f \in DOMAIN fs : f \in DOMAIN fs' /\ (f \notin WrittenFiles => fs'[f] = fs[f])
        /\ \A f \in DOMAIN fs' : f \notin DOMAIN fs => f \in WrittenFiles
      ]_vars

C4_Witness ==
    /\ Generated
    /\ builds = 2
    /\ \E i, j \in 1..Len(trace) :
          /\ trace[i].old = trace[i].content /\ ~trace[i].written
          /\ trace[j].old = StaleStub /\ trace[j].written
    /\ Len(generated) = Len(trace)

\* C6 as claimed: when no configured suffix supports reStructuredText a
\* warning is logged, no stub is written and generated_automodules_docs is
\* unchanged; when no source document exists process_automodules returns
\* silently with the same unchanged state.
C6_WarnWithoutRstSuffix ==
    [][(BuildStep /\ op' = "process_automodules") =>
        /\ get_rst_suffix(source_suffix) = None =>
              /\ warnings' = warnings + 1
              /\ UNCHANGED <<fs, generated>>
        /\ ~doc.isfile =>
              /\ warnings' = warnings
              /\ UNCHANGED <<fs, generated>>
      ]_vars

\* C6 amended: the warning is logged when at least one source document exists
\* on disk and no configured suffix supports reStructuredText; without any
\* source document the call is silent; in both cases nothing is written and
\* generated_automodules_docs is unchanged.
C6_WarnWithSourcesOnly ==
    [][(BuildStep /\ op' = "process_automodules") =>
        /\ (doc.isfile /\ get_rst_suffix(source_suffix) = None) =>
              /\ warnings' = warnings + 1
              /\ UNCHANGED <<fs, generated>>
        /\ ~doc.isfile =>
              /\ warnings' = warnings
              /\ UNCHANGED <<fs, generated>>
      ]_vars

C6_Witness ==
    /\ op = "process_automodules"
    /\ builds = 2
    /\ doc.isfile
    /\ get_rst_suffix(source_suffix) = None
    /\ warnings = 1
    /\ generated # <<>>
    /\ DOMAIN fs # {}

\* the comma-separated names of an :exclude-members: option
ListedNames(e) == {Strip(n) : n \in Range(Split(e.exclude_members.str, ","))}

\* C8 as claimed: a stub is generated for every module resolved from an
\* entry's name except those whose name is one of the comma-separated names
\* of the block's :exclude-members: option; no other module is skipped.
C8_SkipOnlyListedModules ==
    (Generated /\ doc.isfile /\ (op = "process_automodules" => get_rst_suffix(source_suffix) # None)) =>
        \A k \in 1..Len(DocEntries) :
            LET e == DocEntries[k]
                modules == resolve_name(e.name)
            IN \A n \in 1..Len(modules) :
                  (modules[n].name \notin ListedNames(e)) <=>
                      \E i \in 1..Len(trace) :
                          trace[i].entry = e /\ trace[i].name = modules[n].name

(***************************************************************************)
(* Properties of rst_nodes                                                 *)
(***************************************************************************)
\* C5: when get_object raises SuffixNotFound or SuffixAmbiguous the call ends
\* in a SphinxError whose message carries the path segments (and the
\* candidate keys when ambiguous), nothing is rendered and no nodes are
\* returned; otherwise the nodes parsed from the rendered RST are returned.
C5_ErrorsBecomeSphinxError ==
    op = "rst_nodes" =>
        /\ lookup.kind \in {"SuffixNotFound", "SuffixAmbiguous"} =>
              /\ result.kind = "SphinxError"
              /\ Contains(result.message, Concat(lookup.segments))
              /\ result.rst_calls = 0
              /\ result.nodes = <<>>
        /\ lookup.kind = "SuffixAmbiguous" =>
              \A i \in 1..Len(lookup.next_possible_keys) :
                  Contains(result.message, lookup.next_possible_keys[i])
        /\ lookup.kind = "found" =>
              /\ result.kind = "nodes"
              /\ result.rst_calls = 1
              /\ result.nodes =
                    ParsedNodes(RenderedRst(partial_path, lookup.obj, short_name))

C5_Witness ==
    /\ op = "rst_nodes"
    /\ lookup.kind = "SuffixAmbiguous"
    /\ Len(lookup.segments) = 2
    /\ Len(lookup.next_possible_keys) = 2
    /\ result.kind = "SphinxError"

(***************************************************************************)
(* Properties of _formal_params                                            *)
(***************************************************************************)
\* the top-level name of the parameter i: its name before the first '.'
TopLevelName(i) ==
    LET n == params[i].name
        dots == {k \in 1..Len(n) : n[k] = "."}
    IN IF dots = {} THEN n
       ELSE SubSeq(n, 1, (CHOOSE k \in dots : \A l \in dots : k <= l) - 1)

\* the parameter i as it is written in the list
RenderedParam(i) ==
    (IF params[i].is_variadic THEN <<".", ".", ".">> ELSE <<>>)
    \o TopLevelName(i)
    \o (IF params[i].has_default THEN <<"=">> \o params[i].default ELSE <<>>)

\* the parameters at the positions S, in the order of obj.params
RenderedParams(S) ==
    [k \in 1..Cardinality(S) |->
        RenderedParam(CHOOSE i \in S : Cardinality({j \in S : j <= i}) = k)]

\* C12 as claimed: an explicit parameter list is returned as it is; otherwise
\* the result is the parenthesised, comma-separated list of parameters of
\* obj.params in their order, one for each top-level name and no top-level
\* name twice, a variadic one with '...' before it and one with a default as
\* name=default.
C12_FormalParams ==
    op = "_formal_params" =>
        IF explicit_formal_params # <<>>
        THEN formal_params = explicit_formal_params
        ELSE \E S \in SUBSET (1..Len(params)) :
                /\ \A i, j \in S : TopLevelName(i) = TopLevelName(j) => i = j
                /\ \A i \in 1..Len(params) : \E j \in S : TopLevelName(j) = TopLevelName(i)
                /\ formal_params =
                       <<"(">> \o JoinWith(RenderedParams(S), <<",", " ">>) \o <<")">>

(***************************************************************************)
(* Properties of _default_options                                          *)
(***************************************************************************)
Has(d, n) == n \in DOMAIN d

\* the option n is after the call what it was before it
LeftAsItWas(n) ==
    /\ Has(options_active, n) <=> Has(options, n)
    /\ Has(options, n) => options_active[n] = options[n]

\* the names of a comma-separated string, in their order
ConfiguredNames(s) ==
    [k \in 1..Cardinality(ItemsOf(s)) |->
        LET ij == CHOOSE x \in ItemsOf(s) :
                      Cardinality({y \in ItemsOf(s) : y[1] <= x[1]}) = k
        IN Stripped(SubSeq(s, ij[1], ij[2]))]

EnablesAsClaimed(v) == v \in {PyBool(TRUE), PyNone, PyStr(<<"1">>)}

\* True, None, '1', and an integer that equals True
EnablesOrEqualsTrue(v) == EnablesAsClaimed(v) \/ (v.kind = "int" /\ v.int = 1)

DefaultsApplied(Enables(_)) ==
    op = "_default_options" =>
        /\ \A n \in {"members", "private-members"} :
              Has(config_default_options, n) =>
                  IF ~Has(options, n) /\ Enables(config_default_options[n])
                  THEN Has(options_active, n) /\ options_active[n] = PyNone
                  ELSE IF /\ n = "members"
                          /\ Has(options, n)
                          /\ options[n].kind = "list"
                          /\ config_default_options[n].kind = "str"
                  THEN /\ Has(options_active, n)
                       /\ options_active[n] =
                              PyList(options[n].list
                                     \o ConfiguredNames(config_default_options[n].str))
                  ELSE LeftAsItWas(n)
        /\ \A n \in (DOMAIN options \cup DOMAIN options_active
                     \cup DOMAIN config_default_options)
                    \ {"members", "private-members"} : LeftAsItWas(n)

=============================================================================
